---- MODULE Spec2Model ----
(***************************************************************************)
(* A model of minparse (src/src/minparse/parser.py, types.py): the         *)
(* configuration validator, the result initialiser, the '=' tokenizer, the *)
(* dispatch loop of parse_arguments with its three consumers, and          *)
(* generate_help.                                                          *)
(*                                                                         *)
(* Data representation.  A Python str is a sequence of characters, each    *)
(* character a one-element TLA+ string ("-", "=", "a", ...).  The          *)
(* character "sup2" stands for U+00B2 SUPERSCRIPT TWO, for which           *)
(* str.isdigit() is True and int() raises ValueError.  A value that may be *)
(* a str, None, Ellipsis or something else is a record [tag, s].  A value  *)
(* stored in the result maps is a record [tag, b, n, s, l] (bool, int,     *)
(* str, list of str).  A dict is kept in insertion order as a sequence of  *)
(* entries (the configuration) or as a function (the result maps).         *)
(***************************************************************************)
EXTENDS Integers, Sequences, FiniteSets, TLC

\* ------------------------------------------------------------------ bounds

\* The longest argument vector (sys.argv[1:]) the model draws.
MaxArgs == 2

\* How many times the application assigns another configuration.
MaxAssign == 1

\* ------------------------------------------------------------ Python values

Str(chars) == [tag |-> "str", s |-> chars]
None == [tag |-> "None", s |-> <<>>]
Ellipsis == [tag |-> "Ellipsis", s |-> <<>>]
\* Some object that is neither a str, None nor Ellipsis (an int, say).
NotAStr == [tag |-> "other", s |-> <<>>]

\* Python truthiness of a str-or-None value: a non-empty str.
Truthy(x) == x.tag = "str" /\ x.s # <<>>

BoolV(b) == [tag |-> "bool", b |-> b, n |-> 0, s |-> <<>>, l |-> <<>>]
IntV(n) == [tag |-> "int", b |-> FALSE, n |-> n, s |-> <<>>, l |-> <<>>]
StrV(s) == [tag |-> "str", b |-> FALSE, n |-> 0, s |-> s, l |-> <<>>]
ListV(l) == [tag |-> "list", b |-> FALSE, n |-> 0, s |-> <<>>, l |-> l]

\* dict[k] = v on a dict kept as a function.
Put(d, k, v) == [x \in (DOMAIN d) \cup {k} |-> IF x = k THEN v ELSE d[x]]
\* del dict[k]
Del(d, k) == [x \in (DOMAIN d) \ {k} |-> d[x]]
EmptyDict == [x \in {} |-> 0]

Range(seq) == {seq[i] : i \in DOMAIN seq}
\* seq[k:] of Python, k >= 0
From(seq, k) == IF k >= Len(seq) THEN <<>> ELSE SubSeq(seq, k + 1, Len(seq))

\* ------------------------------------------------------------ configurations

\* One item of ParserConfig.optional_args: key -> (kind, short, long, help).
Opt(key, kind, short, long, help) ==
    [key |-> key, arity |-> 4, kind |-> kind, short |-> short, long |-> long,
     help |-> help]

\* A ParserConfig as the application leaves it before a call.
Config(pos, opt) ==
    [positional_args |-> pos, optional_args |-> opt, program_name |-> None,
     help_preamble |-> None, help_postamble |-> None]

P == Str(<<"p">>)
Q == Str(<<"q">>)
ShortV == Str(<<"-", "v">>)
ShortI == Str(<<"-", "i">>)
ShortF == Str(<<"-", "f">>)
ShortN == Str(<<"-", "n">>)
LongV == Str(<<"-", "-", "v">>)
LongF == Str(<<"-", "-", "f">>)
LongN == Str(<<"-", "-", "n">>)
HelpText == Str(<<"h">>)

\* grep-like: two plain-or-variadic positionals, every kind of optional, one
\* of them with a short flag only.
CfgGrep ==
    Config(<<P, Q, Ellipsis>>,
           <<Opt("verb", "BIN", ShortV, LongV, HelpText),
             Opt("inv", "BIN", ShortI, None, None),
             Opt("file", "STR", ShortF, LongF, None),
             Opt("num", "INT", ShortN, LongN, HelpText)>>)

\* Every optional has a long flag; one plain positional.
CfgLong ==
    Config(<<P>>,
           <<Opt("verb", "BIN", ShortV, LongV, HelpText),
             Opt("file", "STR", None, LongF, None),
             Opt("num", "INT", None, LongN, HelpText)>>)

\* Two plain positionals of other names, no optionals.
CfgPlain == Config(<<Str(<<"a">>), Str(<<"b">>)>>, <<>>)

\* The variadic marker alone.
CfgOnlyEllipsis == Config(<<Ellipsis>>, <<>>)

\* Two optionals with the same long flag.
CfgDupLong ==
    Config(<<Q, Ellipsis>>,
           <<Opt("verb", "BIN", None, LongV, None),
             Opt("inv", "BIN", None, LongV, None)>>)

\* Two optionals with the same short flag.
CfgDupShort ==
    Config(<<P>>,
           <<Opt("verb", "BIN", ShortV, None, None),
             Opt("inv", "BIN", ShortV, None, None)>>)

\* A Boolean optional whose short flag is "--", next to -v.
CfgDashDash ==
    Config(<<Q, Ellipsis>>,
           <<Opt("verb", "BIN", ShortV, None, None),
             Opt("dash", "BIN", Str(<<"-", "-">>), None, None)>>)

\* An empty positional name; an empty short flag beside a missing long flag;
\* a two-character long flag.
CfgOdd ==
    Config(<<Str(<<>>)>>,
           <<Opt("verb", "BIN", Str(<<>>), None, None),
             Opt("inv", "BIN", None, Str(<<"-", "i">>), None)>>)

\* Malformed configurations, one defect each.
CfgEllipsisFirst == Config(<<Ellipsis, P>>, <<>>)
CfgDupName == Config(<<P, P>>, <<>>)
CfgNameNotStr == Config(<<NotAStr, P>>, <<>>)
CfgLastNotStr == Config(<<P, NotAStr>>, <<>>)
CfgArity == Config(<<P>>, <<[Opt("verb", "BIN", ShortV, None, None) EXCEPT !.arity = 3]>>)
CfgKind == Config(<<P>>, <<Opt("verb", "other", ShortV, None, None)>>)
CfgFlagNotStr == Config(<<P>>, <<Opt("verb", "BIN", NotAStr, LongV, None)>>)
CfgNoFlag == Config(<<P>>, <<Opt("verb", "BIN", None, None, None)>>)
CfgShortLen == Config(<<P>>, <<Opt("verb", "BIN", Str(<<"-", "v", "i">>), None, None)>>)
CfgShortDash == Config(<<P>>, <<Opt("verb", "BIN", Str(<<"v", "i">>), None, None)>>)
CfgLongDash == Config(<<P>>, <<Opt("verb", "BIN", None, Str(<<"-", "v", "i">>), None)>>)
CfgHelpNotStr == Config(<<P>>, <<Opt("verb", "BIN", ShortV, None, NotAStr)>>)
CfgProgram == [Config(<<P>>, <<>>) EXCEPT !.program_name = NotAStr]
CfgPreamble == [Config(<<P>>, <<>>) EXCEPT !.help_preamble = NotAStr]
CfgPostamble == [Config(<<P>>, <<>>) EXCEPT !.help_postamble = NotAStr]

Configs ==
    {CfgGrep, CfgLong, CfgPlain, CfgOnlyEllipsis, CfgDupLong, CfgDupShort,
     CfgDashDash, CfgOdd, CfgEllipsisFirst, CfgDupName, CfgNameNotStr,
     CfgLastNotStr, CfgArity, CfgKind, CfgFlagNotStr, CfgNoFlag, CfgShortLen,
     CfgShortDash, CfgLongDash, CfgHelpNotStr, CfgProgram, CfgPreamble,
     CfgPostamble}

\* ---------------------------------------------------------------- validator

\* The positional loop of _check_config_integrity: TRUE when no check raises.
check_positionals(pos_conf) ==
    \A i \in 1..Len(pos_conf) :
        LET conf == pos_conf[i]
            last == (i = Len(pos_conf))
        IN  /\ ~(\E j \in 1..(i - 1) : pos_conf[j] = conf)
            /\ ~(~last /\ conf = Ellipsis)
            /\ ~(last /\ conf.tag \notin {"str", "Ellipsis"})
            /\ ~(~last /\ conf.tag # "str")

\* The checks of one optional entry, in the order of the code, against the
\* two seen-sets as the loop has filled them: TRUE when none raises.
check_optional(conf, seen_short_flags, seen_long_flags) ==
    /\ conf.arity = 4
    /\ conf.kind \in {"BIN", "INT", "STR"}
    /\ conf.short.tag \in {"str", "None"}
    /\ conf.long.tag \in {"str", "None"}
    /\ ~(conf.short = None /\ conf.long = None)
    /\ ~(Truthy(conf.short) /\ Len(conf.short.s) # 2)
    /\ ~(Truthy(conf.short) /\ Len(conf.short.s) = 2 /\ conf.short.s[1] # "-")
    /\ ~(Truthy(conf.long) /\ Len(conf.long.s) >= 3
            /\ ~(conf.long.s[1] = "-" /\ conf.long.s[2] = "-"))
    /\ ~(Truthy(conf.short) /\ conf.short \in seen_short_flags)
    /\ ~(Truthy(conf.long) /\ conf.long \in seen_long_flags)
    /\ conf.help.tag \in {"str", "None"}

\* What the loop has added to seen_short_flags after the first k entries:
\* both flags of every entry.
seen_short_after(opt_conf, k) ==
    {opt_conf[j].short : j \in 1..k} \cup {opt_conf[j].long : j \in 1..k}

\* What the loop has added to seen_long_flags after the first k entries:
\* nothing is ever added to it.
seen_long_after(opt_conf, k) == {}

check_optionals(opt_conf) ==
    \A i \in 1..Len(opt_conf) :
        check_optional(opt_conf[i], seen_short_after(opt_conf, i - 1),
                       seen_long_after(opt_conf, i - 1))

\* _check_config_integrity: "ok", or the error it raises.
check_config_integrity(cfg) ==
    IF /\ check_positionals(cfg.positional_args)
       /\ check_optionals(cfg.optional_args)
       /\ cfg.program_name.tag \in {"str", "None"}
       /\ cfg.help_preamble.tag \in {"str", "None"}
       /\ cfg.help_postamble.tag \in {"str", "None"}
    THEN "ok"
    ELSE "ParserConfigError"

\* ------------------------------------------------------------------- result

\* ParserResult(): what types.py constructs at import.
FreshResult ==
    [positional_args |-> EmptyDict, optional_args |-> EmptyDict,
     generated_usage |-> <<>>, generated_help |-> <<>>]

\* The zero value _initialize_result stores for an optional of this kind.
default_of(kind) ==
    CASE kind = "BIN" -> BoolV(FALSE)
      [] kind = "INT" -> IntV(0)
      [] kind = "STR" -> StrV(<<>>)

\* The first loop of _initialize_result: every entry of pos_conf, the marker
\* included, becomes a key holding "".
init_positionals(pos_result, pos_conf) ==
    [x \in (DOMAIN pos_result) \cup Range(pos_conf) |->
        IF x \in Range(pos_conf) THEN StrV(<<>>) ELSE pos_result[x]]

\* The second loop of _initialize_result.  Keys are unique (a dict).
init_optionals(opt_result, opt_conf) ==
    LET keys == {opt_conf[i].key : i \in DOMAIN opt_conf}
        conf_of(k) == CHOOSE c \in Range(opt_conf) : c.key = k
    IN  [k \in (DOMAIN opt_result) \cup keys |->
            IF k \in keys THEN default_of(conf_of(k).kind) ELSE opt_result[k]]

\* _initialize_result(result): the result it leaves and how it ends.  It writes
\* into the maps it is given and removes nothing but the marker's key.
initialize_result(res, cfg) ==
    LET pos_conf == cfg.positional_args
        n == Len(pos_conf)
        pos1 == init_positionals(res.positional_args, pos_conf)
    IN  IF n > 0 /\ pos_conf[n] = Ellipsis
        THEN IF n < 2
             THEN \* pos_conf[-2] on a one-element list
                  [status |-> "IndexError",
                   result |-> [res EXCEPT !.positional_args = pos1]]
             ELSE [status |-> "ok",
                   result |-> [res EXCEPT
                      !.positional_args =
                          Del(Put(pos1, pos_conf[n - 1], ListV(<<>>)), Ellipsis),
                      !.optional_args =
                          init_optionals(res.optional_args, cfg.optional_args)]]
        ELSE [status |-> "ok",
              result |-> [res EXCEPT
                 !.positional_args = pos1,
                 !.optional_args =
                     init_optionals(res.optional_args, cfg.optional_args)]]

\* ---------------------------------------------------------------- tokenizer

Eq == <<"=">>
DashDash == <<"-", "-">>

\* The index of the first "=" of s at or after position from, Len(s)+1 if none.
RECURSIVE find_eq(_, _)
find_eq(s, from) ==
    IF from > Len(s) THEN Len(s) + 1
    ELSE IF s[from] = "=" THEN from
    ELSE find_eq(s, from + 1)

\* arg.split("=")[0]
split_field0(arg) == SubSeq(arg, 1, find_eq(arg, 1) - 1)

\* arg.split("=")[1], for an arg holding "=": what lies between its first
\* "=" and its second one (or its end).
split_field1(arg) ==
    LET i1 == find_eq(arg, 1)
    IN  SubSeq(arg, i1 + 1, find_eq(arg, i1 + 1) - 1)

\* The tokens one argument contributes to the result list.
split_one(arg) ==
    IF "=" \in Range(arg)
    THEN <<split_field0(arg), Eq, split_field1(arg)>>
    ELSE <<arg>>

RECURSIVE split_all(_)
split_all(args) ==
    IF args = <<>> THEN <<>> ELSE split_one(Head(args)) \o split_all(Tail(args))

\* _split_equal_sgn(args)
split_equal_sgn(args) ==
    IF Eq \in Range(args)
    THEN [status |-> "ParserUserError", tokens |-> <<>>]
    ELSE [status |-> "ok", tokens |-> split_all(args)]

\* ------------------------------------------------------------- flag parsing

\* _is_stacked_flag(flag)
is_stacked_flag(flag) == Len(flag) >= 3 /\ flag[1] = "-" /\ flag[2] # "-"

\* _is_regular_flag(flag), for a non-empty flag (flag[0] of "" is an
\* IndexError, see dispatch).
is_regular_flag(flag) == flag[1] = "-" /\ ~is_stacked_flag(flag)

\* _get_flag_name(arg): the key of the first entry one of whose flags is arg.
get_flag_name(opt_conf, arg) ==
    LET hits == {i \in DOMAIN opt_conf :
                    opt_conf[i].short = Str(arg) \/ opt_conf[i].long = Str(arg)}
    IN  IF hits = {} THEN [found |-> FALSE, name |-> ""]
        ELSE [found |-> TRUE,
              name |-> opt_conf[CHOOSE i \in hits : \A j \in hits : i <= j].key]

\* opt_conf[name][0]
kind_of(opt_conf, name) == (CHOOSE c \in Range(opt_conf) : c.key = name).kind

\* str.isdigit(): non-empty, every character a digit in Unicode's sense, which
\* the superscript digits are.
DecimalDigits == {"0", "1", "2", "3", "4", "5", "6", "7", "8", "9"}
isdigit(s) == s # <<>> /\ \A i \in DOMAIN s : s[i] \in DecimalDigits \cup {"sup2"}

digit_value(ch) ==
    CASE ch = "0" -> 0 [] ch = "1" -> 1 [] ch = "2" -> 2 [] ch = "3" -> 3
      [] ch = "4" -> 4 [] ch = "5" -> 5 [] ch = "6" -> 6 [] ch = "7" -> 7
      [] ch = "8" -> 8 [] ch = "9" -> 9

RECURSIVE decimal_value(_)
decimal_value(s) ==
    IF s = <<>> THEN 0
    ELSE 10 * decimal_value(SubSeq(s, 1, Len(s) - 1)) + digit_value(s[Len(s)])

\* int(s) for a str that passed isdigit(): the number, or ValueError when a
\* character is not a decimal digit.
int_of(s) ==
    IF \A i \in DOMAIN s : s[i] \in DecimalDigits
    THEN [status |-> "ok", n |-> decimal_value(s)]
    ELSE [status |-> "ValueError", n |-> 0]

\* The state one consumer works on and hands back: how it ended ("ok", or the
\* exception raised), the result maps, the cursor and the positional pointer.
Ret(status, res, args_left, pos_conf) ==
    [status |-> status, result |-> res, args_left |-> args_left,
     pos_conf |-> pos_conf]

\* Mutant of next_positional_parser: the variadic branch is missing, every
\* token is assigned and the pointer always advances.
next_positional_parser_always_advances(res, args_left, pos_conf) ==
    IF pos_conf = <<>>
    THEN Ret("ParserUserError", res, args_left, pos_conf)
    ELSE Ret("ok",
             [res EXCEPT !.positional_args =
                 Put(res.positional_args, pos_conf[1], StrV(args_left[1]))],
             Tail(args_left), Tail(pos_conf))

\* _next_positional_parser(result, args_left, pos_conf)
next_positional_parser(res, args_left, pos_conf) ==
    LET arg == args_left[1]
        pos_result == res.positional_args
    IN  IF pos_conf = <<>>
        THEN Ret("ParserUserError", res, args_left, pos_conf)
        ELSE LET name == pos_conf[1]
             IN  IF Len(pos_conf) = 2 /\ pos_conf[2] = Ellipsis
                 THEN Ret("ok",
                          [res EXCEPT !.positional_args =
                              Put(pos_result, name,
                                  ListV(Append(pos_result[name].l, arg)))],
                          Tail(args_left), pos_conf)
                 ELSE Ret("ok",
                          [res EXCEPT !.positional_args =
                              Put(pos_result, name, StrV(arg))],
                          Tail(args_left), Tail(pos_conf))

\* The tail of _next_regular_flag_parser, once the value has been stored and
\* the cursor moved: the INT coercion.
coerce_int(res, name, tp, args_left, pos_conf) ==
    LET stored == res.optional_args[name].s
    IN  IF tp # "INT" THEN Ret("ok", res, args_left, pos_conf)
        ELSE IF ~isdigit(stored)
        THEN Ret("ParserUserError", res, args_left, pos_conf)
        ELSE IF int_of(stored).status # "ok"
        THEN Ret(int_of(stored).status, res, args_left, pos_conf)
        ELSE Ret("ok",
                 [res EXCEPT !.optional_args =
                     Put(res.optional_args, name, IntV(int_of(stored).n))],
                 args_left, pos_conf)

\* _next_regular_flag_parser(result, args_left, opt_conf)
next_regular_flag_parser(res, args_left, pos_conf, opt_conf) ==
    LET arg == args_left[1]
        got == get_flag_name(opt_conf, arg)
        name == got.name
        store(v) == [res EXCEPT !.optional_args = Put(res.optional_args, name, v)]
    IN  IF ~got.found \/ name = ""
        THEN Ret("ParserUserError", res, args_left, pos_conf)
        ELSE LET tp == kind_of(opt_conf, name)
             IN  IF tp = "BIN"
                 THEN Ret("ok", store(BoolV(TRUE)), Tail(args_left), pos_conf)
                 ELSE IF Len(args_left) >= 3 /\ args_left[2] = Eq
                 THEN coerce_int(store(StrV(args_left[3])), name, tp,
                                 From(args_left, 3), pos_conf)
                 ELSE IF Len(args_left) >= 2 /\ args_left[2] # Eq
                 THEN coerce_int(store(StrV(args_left[2])), name, tp,
                                 From(args_left, 2), pos_conf)
                 ELSE Ret("ParserUserError", res, args_left, pos_conf)

\* The loop of _next_stacked_flag_parser from the i-th character of arg on.
RECURSIVE stacked_from(_, _, _, _, _)
stacked_from(res, args_left, pos_conf, opt_conf, i) ==
    LET arg == args_left[1]
    IN  IF i > Len(arg)
        THEN Ret("ok", res, Tail(args_left), pos_conf)
        ELSE LET got == get_flag_name(opt_conf, <<"-", arg[i]>>)
             IN  IF ~got.found \/ got.name = ""
                 THEN Ret("ParserUserError", res, args_left, pos_conf)
                 ELSE IF kind_of(opt_conf, got.name) # "BIN"
                 THEN Ret("ParserUserError", res, args_left, pos_conf)
                 ELSE stacked_from(
                        [res EXCEPT !.optional_args =
                            Put(res.optional_args, got.name, BoolV(TRUE))],
                        args_left, pos_conf, opt_conf, i + 1)

\* Mutant of next_stacked_flag_parser: the loop runs over arg[2:], so the
\* first flag of the cluster is skipped.
next_stacked_flag_parser_skips_first(res, args_left, pos_conf, opt_conf) ==
    stacked_from(res, args_left, pos_conf, opt_conf, 3)

\* _next_stacked_flag_parser(result, args_left, opt_conf)
next_stacked_flag_parser(res, args_left, pos_conf, opt_conf) ==
    stacked_from(res, args_left, pos_conf, opt_conf, 2)

\* ----------------------------------------------------------- help generation

\* The column budget of the usage line.
UsageWidth == 80
\* col_2_beg of _generate_opt_lines.
Col2Beg == 5
\* The padding _generate_opt_lines adds between the long-flag column and the text.
Col3Pad == 3

UsagePrefix == <<"U", "s", "a", "g", "e", ":", " ">>
OptionsUnit ==
    <<" ", "[", "o", "p", "t", "i", "o", "n", "s", " ", ".", ".", ".", "]", " ">>
OptionsHeader ==
    <<"\n", "\n", "O", "p", "t", "i", "o", "n", "s", ":", " ", "\n">>
\* os.path.basename(sys.argv[0]), the name the process was started under.
InvocationName == <<"d", "e", "m", "o">>

RECURSIVE Spaces(_)
Spaces(n) == IF n <= 0 THEN <<>> ELSE <<" ">> \o Spaces(n - 1)

RECURSIVE Flatten(_)
Flatten(seqs) == IF seqs = <<>> THEN <<>> ELSE Head(seqs) \o Flatten(Tail(seqs))

\* sep.join(lines)
RECURSIVE Join(_, _)
Join(lines, sep) ==
    IF Len(lines) <= 1 THEN Flatten(lines)
    ELSE Head(lines) \o sep \o Join(Tail(lines), sep)

RECURSIVE MaxOf(_)
MaxOf(ns) ==
    IF Len(ns) = 1 THEN ns[1]
    ELSE IF ns[1] >= MaxOf(Tail(ns)) THEN ns[1] ELSE MaxOf(Tail(ns))

\* _long_flag_with_tail(conf): conf[2] + tail, a TypeError when conf[2] is None.
long_flag_with_tail(conf) ==
    LET tail == CASE conf.kind = "INT" -> <<" ", "<", "i", "n", "t", ">">>
                  [] conf.kind = "STR" -> <<" ", "<", "s", "t", "r", ">">>
                  [] OTHER -> <<>>
    IN  IF conf.long.tag # "str"
        THEN [status |-> "TypeError", s |-> <<>>]
        ELSE [status |-> "ok", s |-> conf.long.s \o tail]

\* One step of either wrap loop of _generate_usage: a new indented line when
\* the unit would reach the budget, then the unit at the end of the last line.
add_unit(usage, unit) ==
    LET lines == IF Len(usage[Len(usage)]) + Len(unit) >= UsageWidth
                 THEN Append(usage, Spaces(Len(UsagePrefix)))
                 ELSE usage
    IN  [lines EXCEPT ![Len(lines)] = @ \o unit]

RECURSIVE add_units(_, _)
add_units(usage, units) ==
    IF units = <<>> THEN usage
    ELSE add_units(add_unit(usage, Head(units)), Tail(units))

Bracketed(s) == <<"[">> \o s \o <<"]", " ">>

\* _generate_usage(pos_conf, opt_conf, program)
generate_usage(pos_conf, opt_conf, program) ==
    LET head == UsagePrefix \o program
                  \o (IF opt_conf # <<>> THEN OptionsUnit ELSE <<>>)
        short_flags ==
            Flatten([i \in DOMAIN opt_conf |->
                IF ~Truthy(opt_conf[i].help) /\ Truthy(opt_conf[i].short)
                THEN <<opt_conf[i].short.s[2]>> ELSE <<>>])
        with_short ==
            IF short_flags # <<>>
            THEN head \o <<"[", "-">> \o short_flags \o <<"]", " ">>
            ELSE head
        long_confs ==
            SelectSeq(opt_conf,
                      LAMBDA c : ~Truthy(c.help) /\ ~Truthy(c.short))
        long_ok == \A i \in DOMAIN long_confs :
                      long_flag_with_tail(long_confs[i]).status = "ok"
        long_flags == [i \in DOMAIN long_confs |->
                         Bracketed(long_flag_with_tail(long_confs[i]).s)]
        n == Len(pos_conf)
        variadic == n > 0 /\ pos_conf[n] = Ellipsis
        names == IF variadic
                 THEN [i \in 1..(n - 1) |->
                         IF i = n - 1 THEN pos_conf[i].s \o <<" ", ".", ".", ".">>
                         ELSE pos_conf[i].s]
                 ELSE [i \in 1..n |-> pos_conf[i].s]
        lines == add_units(add_units(<<with_short>>, long_flags),
                           [i \in DOMAIN names |-> Bracketed(names[i])])
    IN  IF ~long_ok THEN [status |-> "TypeError", text |-> <<>>]
        ELSE IF variadic /\ n = 1
        THEN \* pos_conf[-1] after pop() emptied the list
             [status |-> "IndexError", text |-> <<>>]
        ELSE [status |-> "ok",
              text |-> Join([lines EXCEPT ![Len(lines)] = @ \o <<"BS">>], <<"\n">>)]

\* _wrap_help_line(text, indent) for a text of one word that fits the
\* terminal: the line breaks go, textwrap.fill changes nothing else.
wrap_help_line(text, indent) == SelectSeq(text, LAMBDA ch : ch # "\n")

\* _generate_opt_lines(opt_conf)
generate_opt_lines(opt_conf) ==
    LET tails == [i \in DOMAIN opt_conf |-> long_flag_with_tail(opt_conf[i])]
        tails_ok == \A i \in DOMAIN tails : tails[i].status = "ok"
        col_3_beg == Col3Pad + Col2Beg
                       + MaxOf([i \in DOMAIN tails |-> Len(tails[i].s)])
        line(conf) ==
            (IF Truthy(conf.short)
             THEN Spaces(2) \o conf.short.s \o <<" ">>
             ELSE Spaces(Col2Beg))
            \o (IF Truthy(conf.long)
                THEN long_flag_with_tail(conf).s
                       \o Spaces(col_3_beg - Col2Beg
                                   - Len(long_flag_with_tail(conf).s))
                ELSE Spaces(col_3_beg - Col2Beg))
            \o wrap_help_line(conf.help.s, col_3_beg)
        with_text == SelectSeq(opt_conf, LAMBDA c : Truthy(c.help))
    IN  IF opt_conf = <<>> THEN [status |-> "ok", lines |-> <<>>]
        ELSE IF ~tails_ok THEN [status |-> "TypeError", lines |-> <<>>]
        ELSE [status |-> "ok",
              lines |-> [i \in DOMAIN with_text |-> line(with_text[i])]]

\* generate_help(): how it ends and the result it leaves.  The two texts are
\* assigned last, so a call that raises leaves them as they were.  No modelled
\* configuration that passes the validator sets a preamble or a postamble, so
\* the two _wrap_help_ambles branches are never taken.
generate_help(res, cfg) ==
    LET program == IF Truthy(cfg.program_name) THEN cfg.program_name.s
                   ELSE InvocationName
        usage == generate_usage(cfg.positional_args, cfg.optional_args, program)
        opt_lines == generate_opt_lines(cfg.optional_args)
        help == IF opt_lines.lines # <<>>
                THEN usage.text \o OptionsHeader \o Join(opt_lines.lines, <<"\n">>)
                ELSE usage.text
    IN  IF check_config_integrity(cfg) # "ok"
        THEN [status |-> check_config_integrity(cfg), result |-> res]
        ELSE IF usage.status # "ok"
        THEN [status |-> usage.status, result |-> res]
        ELSE IF opt_lines.status # "ok"
        THEN [status |-> opt_lines.status, result |-> res]
        ELSE [status |-> "ok",
              result |-> [res EXCEPT !.generated_usage = usage.text,
                                     !.generated_help = help]]

\* --------------------------------------------------------- the dispatch loop

\* Which branch of the while loop of parse_arguments takes the head token.
\* "fault" is _is_regular_flag("") reading flag[0] of an empty token.
dispatch(arg, no_more_optionals) ==
    IF arg = DashDash THEN "terminator"
    ELSE IF no_more_optionals THEN "positional"
    ELSE IF arg = <<>> THEN "fault"
    ELSE IF is_regular_flag(arg) THEN "regular"
    ELSE IF is_stacked_flag(arg) THEN "stacked"
    ELSE "positional"

\* The state of a call inside the loop.
LoopState(status, res, args_left, pos_conf, no_more_optionals) ==
    [status |-> status, result |-> res, args_left |-> args_left,
     pos_conf |-> pos_conf, no_more_optionals |-> no_more_optionals]

\* One iteration of the while loop from a state whose cursor is not empty.
loop_body(st, cfg) ==
    LET kind == dispatch(st.args_left[1], st.no_more_optionals)
        after(r) == LoopState(r.status, r.result, r.args_left, r.pos_conf,
                              st.no_more_optionals)
    IN  CASE kind = "terminator" ->
                [st EXCEPT !.no_more_optionals = TRUE,
                           !.args_left = Tail(st.args_left)]
          [] kind = "fault" -> [st EXCEPT !.status = "IndexError"]
          [] kind = "regular" ->
                after(next_regular_flag_parser(st.result, st.args_left,
                                               st.pos_conf, cfg.optional_args))
          [] kind = "stacked" ->
                after(next_stacked_flag_parser(st.result, st.args_left,
                                               st.pos_conf, cfg.optional_args))
          [] kind = "positional" ->
                after(next_positional_parser(st.result, st.args_left,
                                             st.pos_conf))

\* parse_arguments() up to the while loop: validation, initialisation of the
\* module's result object, the copies and the tokenizer.
parse_prologue(res, cfg, args) ==
    LET checked == check_config_integrity(cfg)
        inited == initialize_result(res, cfg)
        split == split_equal_sgn(args)
    IN  IF checked # "ok" THEN LoopState(checked, res, <<>>, <<>>, FALSE)
        ELSE IF inited.status # "ok"
        THEN LoopState(inited.status, inited.result, <<>>, <<>>, FALSE)
        ELSE IF split.status # "ok"
        THEN LoopState(split.status, inited.result, args,
                       cfg.positional_args, FALSE)
        ELSE LoopState("ok", inited.result, split.tokens,
                       cfg.positional_args, FALSE)

\* The while loop run to its end.
RECURSIVE run_loop(_, _)
run_loop(st, cfg) ==
    IF st.status # "ok" \/ st.args_left = <<>> THEN st
    ELSE run_loop(loop_body(st, cfg), cfg)

\* parse_arguments() as a whole, on the result object as it finds it.
parse_arguments(res, cfg, args) == run_loop(parse_prologue(res, cfg, args), cfg)

\* --------------------------------------------------------------- the inputs

Tokens ==
    { <<>>,
      <<"=">>,
      <<"=", "a">>,
      <<"a">>,
      <<"a", "=", "b">>,
      <<"5">>,
      <<"sup2">>,
      <<"-", "-">>,
      <<"-", "v">>,
      <<"-", "v", "i">>,
      <<"-", "v", "f">>,
      <<"-", "v", "-">>,
      <<"-", "i", "v", "v">>,
      <<"-", "-", "f">>,
      <<"-", "-", "f", "=", "a">>,
      <<"-", "-", "f", "=", "a", "=", "b">>,
      <<"-", "-", "n">> }

\* Every argument vector of at most MaxArgs tokens.
Argvs == UNION {[1..n -> Tokens] : n \in 0..MaxArgs}

\* ------------------------------------------------------------------ the state

VARIABLES
    config,             \* _config, the module's ParserConfig
    argv,               \* sys.argv[1:]
    result,             \* _result, the module's ParserResult
    pc,                 \* "idle", or "loop" inside parse_arguments' while loop
    status,             \* how that call ended: "none", "running", "ok" or the
                        \* exception it raised
    called,             \* the last call made since _config was assigned: "none",
                        \* "parse_arguments" or "generate_help"
    args_left,          \* the remaining-tokens cursor of the call
    pos_config,         \* the positional pointer of the call
    no_more_optionals,  \* the call's flag
    pos_tokens,         \* history: the tokens the call gave to _next_positional_parser
    assigned            \* history: how many times _config was assigned anew

vars == <<config, argv, result, pc, status, called, args_left, pos_config,
          no_more_optionals, pos_tokens, assigned>>

\* A configuration the validator rejects ends every call before sys.argv is
\* read, so one argument vector stands for all of them there.
Init ==
    /\ config \in Configs
    /\ argv \in Argvs
    /\ check_config_integrity(config) # "ok" => argv = <<>>
    /\ result = FreshResult
    /\ pc = "idle"
    /\ status = "none"
    /\ called = "none"
    /\ args_left = <<>>
    /\ pos_config = <<>>
    /\ no_more_optionals = FALSE
    /\ pos_tokens = <<>>
    /\ assigned = 0

\* The call's state as a LoopState.
Current == LoopState("ok", result, args_left, pos_config, no_more_optionals)

\* A call of parse_arguments() reaches its while loop, or ends before it.
ParseBegin ==
    /\ pc = "idle"
    /\ LET st == parse_prologue(result, config, argv)
       IN  /\ result' = st.result
           /\ args_left' = st.args_left
           /\ pos_config' = st.pos_conf
           /\ no_more_optionals' = st.no_more_optionals
           /\ status' = IF st.status = "ok" THEN "running" ELSE st.status
           /\ pc' = IF st.status = "ok" THEN "loop" ELSE "idle"
    /\ called' = "parse_arguments"
    /\ pos_tokens' = <<>>
    /\ UNCHANGED <<config, argv, assigned>>

\* One iteration of the while loop, of the given kind.
Iterate(kind) ==
    /\ args_left # <<>>
    /\ dispatch(args_left[1], no_more_optionals) = kind
    /\ LET st == loop_body(Current, config)
       IN  /\ result' = st.result
           /\ args_left' = st.args_left
           /\ pos_config' = st.pos_conf
           /\ no_more_optionals' = st.no_more_optionals
           /\ status' = IF st.status = "ok" THEN "running" ELSE st.status
           /\ pc' = IF st.status = "ok" THEN "loop" ELSE "idle"
           /\ pos_tokens' = IF kind = "positional" /\ st.status = "ok"
                            THEN Append(pos_tokens, args_left[1])
                            ELSE pos_tokens
    /\ UNCHANGED <<config, argv, called, assigned>>

\* args_left[0] == "--"
Terminator == pc = "loop" /\ Iterate("terminator")
\* _next_positional_parser takes the head token
PositionalStep == pc = "loop" /\ Iterate("positional")
\* _next_regular_flag_parser takes the head token
RegularFlagStep == pc = "loop" /\ Iterate("regular")
\* _next_stacked_flag_parser takes the head token
StackedFlagStep == pc = "loop" /\ Iterate("stacked")
\* _is_regular_flag("") raises IndexError
EmptyTokenFault == pc = "loop" /\ Iterate("fault")

\* The while loop ends on an empty cursor and parse_arguments() returns.
ParseEnd ==
    /\ pc = "loop"
    /\ args_left = <<>>
    /\ pc' = "idle"
    /\ status' = "ok"
    /\ UNCHANGED <<config, argv, result, called, args_left, pos_config,
                   no_more_optionals, pos_tokens, assigned>>

\* A call of generate_help().
GenerateHelp ==
    /\ pc = "idle"
    /\ LET r == generate_help(result, config)
       IN  /\ result' = r.result
           /\ status' = r.status
    /\ called' = "generate_help"
    /\ UNCHANGED <<config, argv, pc, args_left, pos_config, no_more_optionals,
                   pos_tokens, assigned>>

\* The configurations the application switches to.
NextConfigs == {CfgLong, CfgPlain}

\* The application assigns another configuration between two calls.
Reconfigure ==
    /\ pc = "idle"
    /\ called = "parse_arguments"
    /\ assigned < MaxAssign
    /\ assigned' = assigned + 1
    /\ \E c \in NextConfigs : c # config /\ config' = c
    /\ called' = "none"
    /\ status' = "none"
    /\ UNCHANGED <<argv, result, pc, args_left, pos_config, no_more_optionals,
                   pos_tokens>>

Next ==
    \/ ParseBegin
    \/ Terminator
    \/ PositionalStep
    \/ RegularFlagStep
    \/ StackedFlagStep
    \/ EmptyTokenFault
    \/ ParseEnd
    \/ GenerateHelp

\* One process: a configuration, an argument vector, any number of calls.
Spec == Init /\ [][Next]_vars

NextSeq ==
    \/ Next
    \/ Reconfigure

\* One process whose application assigns other configurations between calls.
SpecSeq == Init /\ [][NextSeq]_vars

\* ================================================================== claims

\* A call of parse_arguments() has returned or raised, and the configuration
\* it ran under is still the one assigned.
ParseReturned == called = "parse_arguments" /\ pc = "idle"
ParseSucceeded == ParseReturned /\ status = "ok"

\* The declared positional names (the variadic marker is not a name) and the
\* declared optional keys of a configuration.
DeclaredNames(cfg) == {e \in Range(cfg.positional_args) : e # Ellipsis}
DeclaredKeys(cfg) == {cfg.optional_args[i].key : i \in DOMAIN cfg.optional_args}
IsVariadic(cfg) ==
    LET n == Len(cfg.positional_args)
    IN  n >= 2 /\ cfg.positional_args[n] = Ellipsis
\* The number of plain (non-variadic) names.
PlainCount(cfg) ==
    IF IsVariadic(cfg) THEN Len(cfg.positional_args) - 2
    ELSE Len(cfg.positional_args)

\* The position of the first "=" of a token that holds one.
FirstEq(tok) == CHOOSE i \in DOMAIN tok : tok[i] = "=" /\ \A j \in 1..(i - 1) : tok[j] # "="
BeforeEq(tok) == SubSeq(tok, 1, FirstEq(tok) - 1)
AfterEq(tok) == SubSeq(tok, FirstEq(tok) + 1, Len(tok))
HasEq(tok) == \E i \in DOMAIN tok : tok[i] = "="

\* An argument names a flag of the entry: as the whole argument, as the part
\* before its "=", or as one character of a cluster.
Mentions(arg, conf) ==
    LET flag == IF HasEq(arg) THEN BeforeEq(arg) ELSE arg
    IN  \/ Str(flag) \in {conf.short, conf.long}
        \/ /\ Len(flag) >= 3 /\ flag[1] = "-" /\ flag[2] # "-"
           /\ \E i \in 2..Len(flag) : Str(<<"-", flag[i]>>) \in {conf.short, conf.long}

ZeroOf(kind) ==
    CASE kind = "BIN" -> BoolV(FALSE)
      [] kind = "STR" -> StrV(<<>>)
      [] kind = "INT" -> IntV(0)

\* C1: after a successful parse_arguments() the positional map has exactly
\* the declared positional names as keys, the optional map exactly the
\* declared optional keys, and every name the input did not supply holds its
\* default ("" / empty sequence / False / "" / 0).
C1_ExactKeysWithDefaults ==
    ParseSucceeded =>
        LET pos == config.positional_args
            opt == config.optional_args
        IN  /\ DOMAIN result.positional_args = DeclaredNames(config)
            /\ DOMAIN result.optional_args = DeclaredKeys(config)
            /\ \A i \in 1..PlainCount(config) :
                  Len(pos_tokens) < i => result.positional_args[pos[i]] = StrV(<<>>)
            /\ (IsVariadic(config) /\ Len(pos_tokens) <= PlainCount(config))
                  => result.positional_args[pos[Len(pos) - 1]] = ListV(<<>>)
            /\ \A i \in DOMAIN opt :
                  (\A k \in DOMAIN argv : ~Mentions(argv[k], opt[i]))
                      => result.optional_args[opt[i].key] = ZeroOf(opt[i].kind)

\* A successful parse under a second configuration, reached with keys of the
\* first one still in the maps.
C1_SecondParseSucceeded == ParseSucceeded /\ assigned = 1

\* Two optional entries declare the same short flag, or the same long flag.
SharesAFlag(cfg) ==
    \E i, j \in DOMAIN cfg.optional_args :
        /\ i # j
        /\ \/ /\ cfg.optional_args[i].short.tag = "str"
              /\ cfg.optional_args[i].short = cfg.optional_args[j].short
           \/ /\ cfg.optional_args[i].long.tag = "str"
              /\ cfg.optional_args[i].long = cfg.optional_args[j].long

\* C2: the validator raises ConfigurationError for every configuration in
\* which two optional entries declare the same short flag or the same long
\* flag: no call gets past the validator under such a configuration.
C2_SharedFlagRejected ==
    (called # "none" /\ SharesAFlag(config)) => status = "ParserConfigError"

\* The tokens the tokenizer is to make of one argument: an argument holding
\* "=" becomes the part before its first "=", "=", and all that follows.
SplitAtFirstEq(arg) ==
    IF HasEq(arg) THEN <<BeforeEq(arg), <<"=">>, AfterEq(arg)>> ELSE <<arg>>

\* C3: the tokenizer replaces every argument that holds "=" by the part before
\* the first "=", the literal "=", and the whole part after that first "=";
\* the other arguments pass unchanged and in order.  Stated of the cursor the
\* while loop starts with.
C3_SplitKeepsEveryCharacter ==
    [][(pc = "idle" /\ pc' = "loop")
          => args_left' = Flatten([i \in DOMAIN argv |-> SplitAtFirstEq(argv[i])])]_vars

\* The position of the first "--" of the argument vector.
FirstDashDash == CHOOSE i \in DOMAIN argv :
                    argv[i] = DashDash /\ \A j \in 1..(i - 1) : argv[j] # DashDash

\* C4: once the first "--" has been consumed, every later argument, whatever
\* its shape, is taken as a positional value verbatim and in input order:
\* after a successful parse the positional tokens end with exactly the
\* arguments that followed the first "--".
C4_AfterTerminatorVerbatim ==
    (ParseSucceeded /\ DashDash \in Range(argv)) =>
        LET rest == From(argv, FirstDashDash)
            k == Len(pos_tokens) - Len(rest)
        IN  k >= 0 /\ From(pos_tokens, k) = rest

\* C5: when an iteration of the loop raises UserInputError, the argument that
\* caused it has not been applied: the result is as it was before it.
C5_NoPartialApplication ==
    [][(pc = "loop" /\ status' = "ParserUserError") => result' = result]_vars

\* The argument vector with its i-th argument "F=x" given as the two
\* arguments "F", "x".
Unjoined(i) ==
    SubSeq(argv, 1, i - 1) \o <<BeforeEq(argv[i]), AfterEq(argv[i])>> \o From(argv, i)

\* The i-th argument is "F=x" for a flag F of a String-kind entry.
IsJoinedStringFlag(i) ==
    /\ HasEq(argv[i])
    /\ BeforeEq(argv[i]) # <<>>
    /\ \E c \in Range(config.optional_args) :
          c.kind = "STR" /\ Str(BeforeEq(argv[i])) \in {c.short, c.long}

\* C6: for every String-kind flag F and every value x, parsing "F=x" and
\* parsing "F", "x", the rest of the argument vector the same, leave the same
\* stored values in the result.
C6_JoinedEqualsSeparate ==
    ParseReturned /\ status # "ParserConfigError" =>
        \A i \in DOMAIN argv :
            IsJoinedStringFlag(i) =>
                LET other == parse_arguments(FreshResult, config, Unjoined(i))
                IN  /\ other.result.positional_args = result.positional_args
                    /\ other.result.optional_args = result.optional_args

\* The head of the cursor is about to go to the stacked-flag parser.
AtCluster ==
    /\ pc = "loop"
    /\ args_left # <<>>
    /\ dispatch(args_left[1], no_more_optionals) = "stacked"

\* "-c" is the short flag of an entry of one of these kinds (under a key
\* the lookup can return).
ShortOfKind(c, kinds) ==
    \E e \in Range(config.optional_args) :
        e.short = Str(<<"-", c>>) /\ e.kind \in kinds /\ e.key # ""

ClusterChars == {args_left[1][i] : i \in 2..Len(args_left[1])}

\* The cursor with the cluster at its head given as separate tokens.
Unstacked ==
    [i \in 1..(Len(args_left[1]) - 1) |-> <<"-", args_left[1][i + 1]>>]
        \o Tail(args_left)

\* n iterations of the while loop, or fewer if it ends first.
RECURSIVE iterations(_, _, _)
iterations(st, cfg, n) ==
    IF n = 0 \/ st.status # "ok" \/ st.args_left = <<>> THEN st
    ELSE iterations(loop_body(st, cfg), cfg, n - 1)

\* The iteration on the cluster leaves what the iterations on the separate
\* tokens leave, and has consumed exactly the cluster.
StackedAsSeparate ==
    LET sep == iterations([Current EXCEPT !.args_left = Unstacked], config,
                          Len(args_left[1]) - 1)
    IN  /\ status' = "running"
        /\ sep.status = "ok"
        /\ result' = sep.result
        /\ args_left' = sep.args_left
        /\ args_left' = Tail(args_left)
        /\ pos_config' = sep.pos_conf
        /\ no_more_optionals' = sep.no_more_optionals

C8_VariadicCapture ==
    (IsVariadic(config) /\ called = "parse_arguments"
        /\ status # "ParserConfigError") =>
        LET pos == config.positional_args
            n == PlainCount(config)
        IN  /\ \A i \in 1..n :
                  i <= Len(pos_tokens)
                      => result.positional_args[pos[i]] = StrV(pos_tokens[i])
            /\ result.positional_args[pos[n + 1]] = ListV(From(pos_tokens, n))
            /\ Len(pos_config) >= 2
            /\ pos_config = From(pos, IF Len(pos_tokens) < n THEN Len(pos_tokens) ELSE n)

\* A successful parse that stored one plain positional and then three tokens
\* in the variadic sequence.
C8_VariadicFilled ==
    /\ ParseSucceeded
    /\ IsVariadic(config)
    /\ PlainCount(config) = 1
    /\ Len(pos_tokens) = 4
    /\ Len(result.positional_args[config.positional_args[2]].l) = 3

\* The head of the cursor is about to go to the regular-flag parser as a
\* flag of an Integer-kind entry, with a value token behind it.
AtIntegerFlag ==
    /\ pc = "loop"
    /\ args_left # <<>>
    /\ dispatch(args_left[1], no_more_optionals) = "regular"
    /\ \E e \in Range(config.optional_args) :
          e.kind = "INT" /\ Str(args_left[1]) \in {e.short, e.long}
    /\ \/ Len(args_left) >= 3 /\ args_left[2] = <<"=">>
       \/ Len(args_left) >= 2 /\ args_left[2] # <<"=">>

IntegerValueToken ==
    IF args_left[2] = <<"=">> THEN args_left[3] ELSE args_left[2]

IntegerKey ==
    (CHOOSE e \in Range(config.optional_args) :
        e.kind = "INT" /\ Str(args_left[1]) \in {e.short, e.long}).key

AllDecimal(tok) ==
    tok # <<>> /\ \A i \in DOMAIN tok : tok[i] \in DecimalDigits

\* C9: for an Integer-kind flag, a value token made only of decimal digits is
\* stored as the integer it denotes, and any other value token ends the parse
\* with UserInputError.
C9_IntegerCoercion ==
    [][AtIntegerFlag =>
          IF AllDecimal(IntegerValueToken)
          THEN /\ status' = "running"
               /\ result'.optional_args[IntegerKey]
                      = IntV(decimal_value(IntegerValueToken))
          ELSE status' = "ParserUserError"]_vars

\* C10: for every configuration that passes the validator, generate_help()
\* completes without error and sets both the usage text and the help text.
C10_HelpCompletes ==
    (called = "generate_help" /\ status # "ParserConfigError") =>
        /\ status = "ok"
        /\ result.generated_usage # <<>>
        /\ result.generated_help # <<>>

\* The result a call of parse_arguments() leaves when it starts from a
\* ParserResult nothing was ever stored in.
FromFresh == parse_arguments(FreshResult, config, argv)

\* C11: the result of a successful parse_arguments() depends only on the
\* configuration and the argument vector of that call: its two maps are the
\* maps the same call leaves on a fresh result, with no key and no value of an
\* earlier call in them.
C11_ResultOfThisCallOnly ==
    ParseSucceeded =>
        /\ result.positional_args = FromFresh.result.positional_args
        /\ result.optional_args = FromFresh.result.optional_args

\* A successful parse under a second configuration that also succeeds from a
\* fresh result.
C11_SecondCallReturned ==
    ParseSucceeded /\ assigned = 1 /\ FromFresh.status = "ok"

\* The validator has run in a call under the current configuration and has
\* not raised.
ValidatorAccepted ==
    called \in {"parse_arguments", "generate_help"} /\ status # "ParserConfigError"

\* A flag is present when it is not None.
Present(flag) == flag # None

\* The flags of an optional entry are well-formed for their class.
WellFormedFlags(conf) ==
    /\ Present(conf.short) \/ Present(conf.long)
    /\ Present(conf.short) =>
          /\ conf.short.tag = "str"
          /\ Len(conf.short.s) = 2
          /\ conf.short.s[1] = "-"
    /\ Present(conf.long) =>
          /\ conf.long.tag = "str"
          /\ Len(conf.long.s) >= 3
          /\ conf.long.s[1] = "-"
          /\ conf.long.s[2] = "-"

\* C12: every optional entry of a configuration the validator accepts has a
\* short or a long flag, a short flag (when present) of exactly two characters
\* starting with "-", and a long flag (when present) of at least three
\* characters starting with "--"; an entry without one of these makes the
\* validator raise ParserConfigError.
C12_AcceptedFlagsWellFormed ==
    ValidatorAccepted =>
        \A i \in DOMAIN config.optional_args :
            WellFormedFlags(config.optional_args[i])

\* The validator accepted a configuration that declares optionals.
C12_AcceptedWithOptionals ==
    ValidatorAccepted /\ config.optional_args # <<>>

\* A positional entry is a name: a non-empty string.
IsName(e) == e.tag = "str" /\ e.s # <<>>

\* The PositionalSpec invariant.
WellFormedPositionals(pos) ==
    LET n == Len(pos)
    IN  /\ \A i \in 1..n :
              \/ IsName(pos[i])
              \/ pos[i] = Ellipsis /\ i = n /\ n >= 2 /\ IsName(pos[n - 1])
        /\ \A i, j \in 1..n : (i # j /\ pos[i] # Ellipsis) => pos[i] # pos[j]

\* C13: every positional list the validator accepts has at most one variadic
\* marker, only as the final entry and immediately after a name, unique names,
\* and only non-empty strings as names; a list with the marker elsewhere, a
\* repeated name or an entry that is no such name makes the validator raise
\* ParserConfigError.
C13_AcceptedPositionalsWellFormed ==
    ValidatorAccepted => WellFormedPositionals(config.positional_args)

\* The validator accepted a configuration that declares positionals.
C13_AcceptedWithPositionals ==
    ValidatorAccepted /\ config.positional_args # <<>>

\* C14: under a configuration that passes the validator, parse_arguments()
\* reaches its loop or raises UserInputError; each loop iteration removes at
\* least one token from the front of the cursor or raises UserInputError; and
\* the loop ends in success only on an empty cursor. No call ends in another
\* fault.
C14_ShrinksOrUserError ==
    [][/\ (/\ pc = "idle"
           /\ called' = "parse_arguments"
           /\ check_config_integrity(config) = "ok")
          => (status' = "running" \/ status' = "ParserUserError")
       /\ pc = "loop"
          => \/ status' = "ParserUserError"
             \/ /\ status' = "running"
                /\ Len(args_left') < Len(args_left)
                /\ \E k \in 1..Len(args_left) :
                      args_left' = SubSeq(args_left, k + 1, Len(args_left))
             \/ status' = "ok" /\ args_left = <<>>]_vars

\* A call that took an empty-string argument into its loop has ended.
C14_EmptyArgumentTaken ==
    ParseReturned /\ status # "ParserConfigError" /\ <<>> \in Range(argv)

====
